---- MODULE Spec2Model ----
(***************************************************************************)
(* Model of lib/streamlit/type_util.py: the type-sniffing predicates.      *)
(* A Python str is a tuple of one-character strings, so that comparison,   *)
(* startswith and regular-expression matching are computed character by    *)
(* character.  A call returns one of "True", "False", "None" or "Raise"    *)
(* (an exception that leaves the function).                                *)
(***************************************************************************)
EXTENDS Integers, Sequences, FiniteSets, TLC

VARIABLES fn, obj, pat, pc, ret, prefilter, imported, exc

vars == <<fn, obj, pat, pc, ret, prefilter, imported, exc>>

(* ------------------------------ bounds --------------------------------- *)
MaxLen == 2
MaxKeys == 2
MaxInner == 1
MaxFields == 2

(* ------------------------- Python str values --------------------------- *)
Digits == {"0", "1", "2", "3", "4", "5", "6", "7", "8", "9"}

Letters == {"a", "b", "c", "d", "e", "f", "g", "h", "i", "j", "k", "l", "m",
            "n", "o", "p", "q", "r", "s", "t", "u", "v", "w", "x", "y", "z",
            "A", "B", "C", "D", "E", "F", "G", "H", "I", "J", "K", "L", "M",
            "N", "O", "P", "Q", "R", "S", "T", "U", "V", "W", "X", "Y", "Z"}

WordChars == Letters \cup Digits \cup {"_"}

startswith(s, prefix) ==
    /\ Len(prefix) <= Len(s)
    /\ \A i \in 1..Len(prefix) : s[i] = prefix[i]

(* a str attribute, or an attribute that holds something else (None) *)
StrVal(s) == [isStr |-> TRUE, s |-> s]
NoneVal == [isStr |-> FALSE, s |-> <<"N","o","n","e">>]

(* "%s" % v *)
FormatS(v) == v.s

(* --------------------- regular expressions (re) ------------------------ *)
(* A compiled pattern is the tuple of its items; an item is an anchor or a *)
(* one-character class with a quantifier.                                  *)
Lit(c) == [k |-> "lit", c |-> c, q |-> "1"]
Bol == [k |-> "bol", c |-> "", q |-> "1"]
Eol == [k |-> "eol", c |-> "", q |-> "1"]
AnyChar(q) == [k |-> "any", c |-> "", q |-> q]
Digit(q) == [k |-> "digit", c |-> "", q |-> q]
Word(q) == [k |-> "word", c |-> "", q |-> q]
LitSeq(s) == [i \in 1..Len(s) |-> Lit(s[i])]

CharOk(it, ch) ==
    CASE it.k = "lit" -> ch = it.c
      [] it.k = "any" -> ch # "\n"
      [] it.k = "digit" -> ch \in Digits
      [] it.k = "word" -> ch \in WordChars
      [] OTHER -> FALSE

(* positions reachable from the positions P by consuming one character *)
Step1(it, s, P) == {p + 1 : p \in {q \in P : q <= Len(s) /\ CharOk(it, s[q])}}

RECURSIVE Closure(_, _, _)
Closure(it, s, P) ==
    LET N == P \cup Step1(it, s, P)
    IN  IF N = P THEN P ELSE Closure(it, s, N)

ItemEnds(it, s, P) ==
    CASE it.k = "bol" -> P \cap {1}
      [] it.k = "eol" ->
            {p \in P : p = Len(s) + 1 \/ (p = Len(s) /\ s[p] = "\n")}
      [] it.q = "*" -> Closure(it, s, P)
      [] it.q = "+" -> Closure(it, s, Step1(it, s, P))
      [] OTHER -> Step1(it, s, P)

(* the positions at which a match of re that starts at position 1 can end *)
RECURSIVE Ends(_, _, _, _)
Ends(re, i, s, P) ==
    IF i > Len(re) THEN P ELSE Ends(re, i + 1, s, ItemEnds(re[i], s, P))

(* pattern.search(s) is not None *)
re_search(re, s) == Ends(re, 1, s, 1..(Len(s) + 1)) # {}

(* pattern.match(s) is not None *)
re_match(re, s) == Ends(re, 1, s, {1}) # {}

StrPat(s) == [isStr |-> TRUE, s |-> s, re |-> <<>>]
RePat(re) == [isStr |-> FALSE, s |-> <<>>, re |-> re]

(* ------------------------------ is_type -------------------------------- *)
actual_fqn(o) == FormatS(o.module) \o <<".">> \o FormatS(StrVal(o.name))

(* a str pattern compiled and matched as a regular expression *)
is_type_compiled(o, fqn_type_pattern) ==
    LET compiled ==
            IF fqn_type_pattern.isStr
            THEN [i \in 1..Len(fqn_type_pattern.s) |->
                     IF fqn_type_pattern.s[i] = "." THEN AnyChar("1")
                     ELSE Lit(fqn_type_pattern.s[i])] \o <<Eol>>
            ELSE fqn_type_pattern.re
    IN  re_match(compiled, actual_fqn(o))

is_type(o, fqn_type_pattern) ==
    IF fqn_type_pattern.isStr
    THEN fqn_type_pattern.s = actual_fqn(o)
    ELSE re_match(fqn_type_pattern.re, actual_fqn(o))

_SYMPY_RE == <<Bol>> \o LitSeq(<<"s","y","m","p","y">>) \o <<AnyChar("*"), Eol>>

_ALTAIR_RE ==
    <<Bol>> \o LitSeq(<<"a","l","t","a","i","r",".","v","e","g","a","l","i","t","e",".","v">>) \o <<Digit("+")>>
            \o LitSeq(<<".","a","p","i",".">>) \o <<Word("*")>> \o LitSeq(<<"C","h","a","r","t">>) \o <<Eol>>

(* ------------------------------ objects -------------------------------- *)
(* An object is described by what the predicates can observe of it:        *)
(*   cls     identity of type(obj): "list", "dict", "tuple", "function",   *)
(*           "object" or "user" (any other class)                          *)
(*   module  type(obj).__module__                                          *)
(*   name    type(obj).__name__                                            *)
(*   mro     fully-qualified names of the proper ancestors of type(obj)    *)
(*   bases   type(obj).__bases__                                           *)
(*   fields  what getattr(type(obj), "_fields", None) does                 *)
(*   items   the elements of a list, the (key, value) entries of a dict,   *)
(*           in iteration order                                            *)
NoFields == [k |-> "absent", names |-> <<>>]

Instance(module, name, mro) ==
    [cls |-> "user", module |-> module, name |-> name, mro |-> mro,
     bases |-> <<"object">>, fields |-> NoFields, items |-> <<>>]

Builtin(cls, name, bases, items) ==
    [cls |-> cls, module |-> StrVal(<<"b","u","i","l","t","i","n","s">>), name |-> name, mro |-> {},
     bases |-> bases, fields |-> NoFields, items |-> items]

Entry(k, v) == [k |-> k, v |-> v]

List(elems) ==
    Builtin("list", <<"l","i","s","t">>, <<"object">>,
            [i \in 1..Len(elems) |-> Entry("", elems[i])])

Dict(entries) == Builtin("dict", <<"d","i","c","t">>, <<"object">>, entries)

Record(bases, fields) ==
    [cls |-> "user", module |-> StrVal(<<"_","_","m","a","i","n","_","_">>), name |-> <<"P">>, mro |-> {},
     bases |-> bases, fields |-> fields, items |-> <<>>]

SeqsUpTo(S, n) == UNION {[1..k -> S] : k \in 0..n}

SympyExpr == <<"s","y","m","p","y",".","c","o","r","e",".","e","x","p","r",".","E","x","p","r">>
KerasModel == <<"k","e","r","a","s",".","e","n","g","i","n","e",".","t","r","a","i","n","i","n","g",".","M","o","d","e","l">>
TfKerasModel == <<"t","e","n","s","o","r","f","l","o","w",".","p","y","t","h","o","n",".","k","e","r","a","s",".","e","n","g","i","n","e",".","t","r","a","i","n","i","n","g",".","M","o","d","e","l">>

Scatter == Instance(StrVal(<<"p","l","o","t","l","y",".","g","r","a","p","h","_","o","b","j","s">>), <<"S","c","a","t","t","e","r">>, {})
IntObj == Builtin("user", <<"i","n","t">>, <<"object">>, <<>>)
(* class A: __module__ = None *)
NoModule == Instance(NoneVal, <<"A">>, {})

Leaves == {Scatter, IntObj, NoModule}

Instances ==
    {Instance(StrVal(<<"s","y","m","p","y",".","c","o","r","e",".","a","d","d">>), <<"A","d","d">>, {SympyExpr}),
     Instance(StrVal(<<"s","y","m","p","y",".","m","a","t","r","i","c","e","s">>), <<"M","a","t","r","i","x">>, {}),
     Instance(StrVal(<<"s","y","m","p","y">>), <<"A","\n">>, {SympyExpr}),
     Instance(StrVal(<<"s","y","m","\n","p","y">>), <<"A">>, {}),
     Instance(StrVal(<<"n","u","m","p","y">>), <<"n","d","a","r","r","a","y">>, {}),
     Instance(StrVal(<<"k","e","r","a","s",".","e","n","g","i","n","e",".","t","r","a","i","n","i","n","g">>), <<"M","o","d","e","l">>, {}),
     Instance(StrVal(<<"k","e","r","a","s",".","e","n","g","i","n","e",".","s","e","q","u","e","n","t","i","a","l">>), <<"S","e","q","u","e","n","t","i","a","l">>, {KerasModel}),
     Instance(StrVal(<<"t","e","n","s","o","r","f","l","o","w",".","p","y","t","h","o","n",".","k","e","r","a","s",".","e","n","g","i","n","e",".","t","r","a","i","n","i","n","g">>), <<"M","o","d","e","l">>, {}),
     Instance(StrVal(<<"t","e","n","s","o","r","f","l","o","w",".","p","y","t","h","o","n",".","k","e","r","a","s",".","e","n","g","i","n","e",".","s","e","q","u","e","n","t","i","a","l">>),
              <<"S","e","q","u","e","n","t","i","a","l">>, {TfKerasModel}),
     Instance(StrVal(<<"_","_","m","a","i","n","_","_">>), <<"M","y","M","o","d","e","l">>, {KerasModel}),
     Instance(StrVal(<<"k","e","r","a","s",".","e","n","g","i","n","e",".","t","r","a","i","n","i","n","g">>), <<"m","o","d","e","l">>, {}),
     Instance(StrVal(<<"k","e","r","a","s","X","e","n","g","i","n","e",".","t","r","a","i","n","i","n","g">>), <<"M","o","d","e","l">>, {}),
     Instance(StrVal(<<"a","l","t","a","i","r",".","v","e","g","a","l","i","t","e",".","v","3",".","a","p","i">>), <<"C","h","a","r","t">>, {}),
     Instance(StrVal(<<"a","l","t","a","i","r",".","v","e","g","a","l","i","t","e",".","v","1","2",".","a","p","i">>), <<"L","a","y","e","r","C","h","a","r","t">>, {}),
     Instance(StrVal(<<"a","l","t","a","i","r",".","v","e","g","a","l","i","t","e",".","v",".","a","p","i">>), <<"C","h","a","r","t">>, {}),
     Instance(StrVal(<<"a","l","t","a","i","r",".","v","e","g","a","l","i","t","e",".","v","3",".","a","p","i">>), <<"C","h","a","r","t","X">>, {}),
     Instance(StrVal(<<"p","l","o","t","l","y",".","g","r","a","p","h","_","o","b","j","s",".","_","f","i","g","u","r","e">>), <<"F","i","g","u","r","e">>, {}),
     Instance(StrVal(<<"g","r","a","p","h","v","i","z",".","d","o","t">>), <<"G","r","a","p","h">>, {}),
     Instance(StrVal(<<"g","r","a","p","h","v","i","z",".","d","o","t">>), <<"D","i","g","r","a","p","h">>, {}),
     Instance(StrVal(<<"g","r","a","p","h","v","i","z",".","d","o","t">>), <<"D","o","t">>, {}),
     Builtin("function", <<"f","u","n","c","t","i","o","n">>, <<"object">>, <<>>),
     Builtin("tuple", <<"t","u","p","l","e">>, <<"object">>, <<>>),
     Builtin("object", <<"o","b","j","e","c","t">>, <<>>, <<>>)} \cup Leaves

Lists == {List(e) : e \in SeqsUpTo(Leaves, MaxLen)}

Keys == {"config", "data", "frames", "layout", "unknownKey"}

Values == Leaves \cup {List(e) : e \in SeqsUpTo(Leaves, MaxInner)}

Dicts ==
    {Dict(d) : d \in {e \in SeqsUpTo({Entry(k, v) : k \in Keys, v \in Values},
                                     MaxKeys) :
                        \A i, j \in 1..Len(e) : e[i].k = e[j].k => i = j}}

FieldsPool ==
    {NoFields, [k |-> "raise", names |-> <<>>], [k |-> "list", names |-> <<"str">>]}
    \cup {[k |-> "tuple", names |-> n] : n \in SeqsUpTo({"str", "int"}, MaxFields)}

Records ==
    {Record(b, f) : b \in {<<"tuple">>, <<"object">>, <<"tuple", "Mixin">>},
                    f \in FieldsPool}

Objects == Instances \cup Lists \cup Dicts \cup Records

(* ----------------------------- predicates ------------------------------ *)
Bool(b) == IF b THEN "True" ELSE "False"

(* a or b *)
Or(a, b) == IF a \in {"Raise", "True"} THEN a ELSE b

(* all(r for ...) and any(r for ...): the generator is consumed in order   *)
(* and an exception raised by an element leaves the call                   *)
RECURSIVE all(_, _)
all(rs, i) ==
    IF i > Len(rs) THEN "True"
    ELSE IF rs[i] = "True" THEN all(rs, i + 1) ELSE rs[i]

RECURSIVE any(_, _)
any(rs, i) ==
    IF i > Len(rs) THEN "False"
    ELSE IF rs[i] = "False" THEN any(rs, i + 1) ELSE rs[i]

is_altair_chart(o) == Bool(is_type(o, RePat(_ALTAIR_RE)))

(* isinstance against the four classes instead of a comparison of names *)
is_keras_model_isinstance(o) ==
    Bool(({actual_fqn(o)} \cup o.mro) \cap
            {<<"k","e","r","a","s",".","e","n","g","i","n","e",".","s","e","q","u","e","n","t","i","a","l",".","S","e","q","u","e","n","t","i","a","l">>,
             <<"k","e","r","a","s",".","e","n","g","i","n","e",".","t","r","a","i","n","i","n","g",".","M","o","d","e","l">>,
             <<"t","e","n","s","o","r","f","l","o","w",".","p","y","t","h","o","n",".","k","e","r","a","s",".","e","n","g","i","n","e",".","s","e","q","u","e","n","t","i","a","l",".","S","e","q","u","e","n","t","i","a","l">>,
             <<"t","e","n","s","o","r","f","l","o","w",".","p","y","t","h","o","n",".","k","e","r","a","s",".","e","n","g","i","n","e",".","t","r","a","i","n","i","n","g",".","M","o","d","e","l">>} # {})

is_keras_model(o) ==
    Bool(\/ is_type(o, StrPat(<<"k","e","r","a","s",".","e","n","g","i","n","e",".","s","e","q","u","e","n","t","i","a","l",".","S","e","q","u","e","n","t","i","a","l">>))
         \/ is_type(o, StrPat(<<"k","e","r","a","s",".","e","n","g","i","n","e",".","t","r","a","i","n","i","n","g",".","M","o","d","e","l">>))
         \/ is_type(o, StrPat(<<"t","e","n","s","o","r","f","l","o","w",".","p","y","t","h","o","n",".","k","e","r","a","s",".","e","n","g","i","n","e",".","s","e","q","u","e","n","t","i","a","l",".","S","e","q","u","e","n","t","i","a","l">>))
         \/ is_type(o, StrPat(<<"t","e","n","s","o","r","f","l","o","w",".","p","y","t","h","o","n",".","k","e","r","a","s",".","e","n","g","i","n","e",".","t","r","a","i","n","i","n","g",".","M","o","d","e","l">>)))

is_graphviz_chart(o) ==
    Bool(\/ is_type(o, StrPat(<<"g","r","a","p","h","v","i","z",".","d","o","t",".","G","r","a","p","h">>))
         \/ is_type(o, StrPat(<<"g","r","a","p","h","v","i","z",".","d","o","t",".","D","i","g","r","a","p","h">>)))

_is_plotly_obj(o) ==
    IF o.module.isStr
    THEN Bool(startswith(o.module.s, <<"p","l","o","t","l","y",".","g","r","a","p","h","_","o","b","j","s">>))
    ELSE "Raise"

_is_list_of_plotly_objs(o) ==
    IF o.cls # "list" THEN "False"
    ELSE IF Len(o.items) = 0 THEN "False"
    ELSE all([i \in 1..Len(o.items) |-> _is_plotly_obj(o.items[i].v)], 1)

(* dict_types, set up by setup_2_3_shims, holds the built-in dict type *)
_is_probably_plotly_dict(o) ==
    IF o.cls # "dict" THEN "False"
    ELSE IF Len(o.items) = 0 THEN "False"
    ELSE IF \E i \in 1..Len(o.items) :
               o.items[i].k \notin {"config", "data", "frames", "layout"}
         THEN "False"
    ELSE LET objs == any([i \in 1..Len(o.items) |->
                             _is_plotly_obj(o.items[i].v)], 1)
             lists == any([i \in 1..Len(o.items) |->
                              _is_list_of_plotly_objs(o.items[i].v)], 1)
         IN  IF objs # "False" THEN objs
             ELSE IF lists # "False" THEN lists
             ELSE "False"

is_plotly_chart(o) ==
    Or(Bool(is_type(o, StrPat(<<"p","l","o","t","l","y",".","g","r","a","p","h","_","o","b","j","s",".","_","f","i","g","u","r","e",".","F","i","g","u","r","e">>))),
       Or(_is_list_of_plotly_objs(o), _is_probably_plotly_dict(o)))

is_function(x) == Bool(x.cls = "function")

(* the test of the single base left out *)
is_namedtuple_any_base(x) ==
    LET b == x.bases
        f == x.fields
    IN  IF Len(b) # 1 THEN "False"
        ELSE IF f.k = "raise" THEN "Raise"
        ELSE IF f.k # "tuple" THEN "False"
        ELSE Bool(\A i \in 1..Len(f.names) : f.names[i] = "str")

is_namedtuple(x) ==
    LET b == x.bases
        f == x.fields
    IN  IF Len(b) # 1 \/ b[1] # "tuple" THEN "False"
        ELSE IF f.k = "raise" THEN "Raise"
        ELSE IF f.k # "tuple" THEN "False"
        ELSE Bool(\A i \in 1..Len(f.names) : f.names[i] = "str")

(* is_sympy_expession, statement by statement *)
(* the result of the prefilter ignored *)
AfterPrefilterIgnored(matched) == "import"

AfterPrefilter(matched) == IF matched THEN "import" ELSE "done"

(* the exception raised again *)
SympyExceptReraise == "Raise"

(* the bare except clause *)
SympyExcept == "False"

(* isinstance(obj, sympy.Expr) is true: return True; otherwise the function *)
(* body ends without a return statement                                     *)
AfterIsinstance(isExpr) == IF isExpr THEN "True" ELSE "None"

(* ------------------------------- inputs -------------------------------- *)
Regexes ==
    {_SYMPY_RE, _ALTAIR_RE,
     LitSeq(<<"s","y","m","p","y">>),
     LitSeq(<<"c","o","r","e">>),
     <<Bol>> \o LitSeq(<<"s","y","m","p","y">>),
     LitSeq(<<"s","y","m","p","y",".","c","o","r","e",".","a","d","d",".","A","d","d">>) \o <<Eol>>,
     LitSeq(<<"k","e","r","a","s">>) \o <<AnyChar("1")>> \o LitSeq(<<"e","n","g","i","n","e">>),
     <<Bol>> \o LitSeq(<<"b","u","i","l","t","i","n","s",".">>) \o <<Word("+"), Eol>>,
     <<Bol, Word("*")>> \o LitSeq(<<".","A">>) \o <<Eol>>,
     <<AnyChar("*")>>,
     <<Bol>> \o LitSeq(<<"g","r","a","p","h","v","i","z",".","d","o","t",".">>) \o <<Word("*")>> \o LitSeq(<<"g","r","a","p","h">>) \o <<Eol>>}

Fqns == {actual_fqn(o) : o \in Instances}

Patterns == {StrPat(s) : s \in Fqns} \cup {RePat(r) : r \in Regexes}

NoPattern == StrPat(<<>>)

(* ------------------------------- actions ------------------------------- *)
Init ==
    /\ fn = "none"
    /\ obj = IntObj
    /\ pat = NoPattern
    /\ pc = "idle"
    /\ ret = "pending"
    /\ prefilter = "none"
    /\ imported = FALSE
    /\ exc = "none"

Idle == pc = "idle"

Return(f, o, p, r) ==
    /\ fn' = f
    /\ obj' = o
    /\ pat' = p
    /\ pc' = "done"
    /\ ret' = r
    /\ prefilter' = "none"
    /\ imported' = FALSE
    /\ exc' = "none"

CallIsType ==
    /\ Idle
    /\ \E o \in Instances, p \in Patterns :
          Return("is_type", o, p, Bool(is_type(o, p)))

CallIsAltairChart ==
    /\ Idle
    /\ \E o \in Objects : Return("is_altair_chart", o, NoPattern, is_altair_chart(o))

CallIsKerasModel ==
    /\ Idle
    /\ \E o \in Objects : Return("is_keras_model", o, NoPattern, is_keras_model(o))

CallIsPlotlyChart ==
    /\ Idle
    /\ \E o \in Objects : Return("is_plotly_chart", o, NoPattern, is_plotly_chart(o))

CallIsGraphvizChart ==
    /\ Idle
    /\ \E o \in Objects :
          Return("is_graphviz_chart", o, NoPattern, is_graphviz_chart(o))

CallIsFunction ==
    /\ Idle
    /\ \E o \in Objects : Return("is_function", o, NoPattern, is_function(o))

CallIsNamedtuple ==
    /\ Idle
    /\ \E o \in Objects : Return("is_namedtuple", o, NoPattern, is_namedtuple(o))

CallIsSympyExpession ==
    /\ Idle
    /\ \E o \in Objects :
          /\ fn' = "is_sympy_expession"
          /\ obj' = o
    /\ pat' = NoPattern
    /\ pc' = "prefilter"
    /\ ret' = "pending"
    /\ prefilter' = "none"
    /\ imported' = FALSE
    /\ exc' = "none"

(* if not is_type(obj, _SYMPY_RE): return False *)
SympyPrefilter ==
    /\ pc = "prefilter"
    /\ LET matched == is_type(obj, RePat(_SYMPY_RE))
       IN  /\ prefilter' = Bool(matched)
           /\ pc' = AfterPrefilter(matched)
           /\ ret' = IF AfterPrefilter(matched) = "done" THEN "False" ELSE ret
    /\ UNCHANGED <<fn, obj, pat, imported, exc>>

(* import sympy: the library loads, or the import raises *)
SympyImport ==
    /\ pc = "import"
    /\ imported' = TRUE
    /\ \E loaded \in BOOLEAN :
          IF loaded
          THEN /\ pc' = "isinstance"
               /\ UNCHANGED <<ret, exc>>
          ELSE /\ pc' = "done"
               /\ exc' = "import"
               /\ ret' = SympyExcept
    /\ UNCHANGED <<fn, obj, pat, prefilter>>

(* isinstance(obj, sympy.Expr): evaluates, or raises (the loaded module has *)
(* no usable Expr, or the instance check itself fails)                      *)
SympyIsinstance ==
    /\ pc = "isinstance"
    /\ pc' = "done"
    /\ \E raises \in BOOLEAN :
          IF raises
          THEN /\ exc' = "isinstance"
               /\ ret' = SympyExcept
          ELSE /\ exc' = exc
               /\ ret' = AfterIsinstance(SympyExpr \in obj.mro)
    /\ UNCHANGED <<fn, obj, pat, prefilter, imported>>

(* the caller takes the result; nothing of the call is kept *)
Finish ==
    /\ pc = "done"
    /\ fn' = "none"
    /\ obj' = IntObj
    /\ pat' = NoPattern
    /\ pc' = "idle"
    /\ ret' = "pending"
    /\ prefilter' = "none"
    /\ imported' = FALSE
    /\ exc' = "none"

Next ==
    \/ Finish
    \/ CallIsType
    \/ CallIsAltairChart
    \/ CallIsKerasModel
    \/ CallIsPlotlyChart
    \/ CallIsGraphvizChart
    \/ CallIsFunction
    \/ CallIsNamedtuple
    \/ CallIsSympyExpession
    \/ SympyPrefilter
    \/ SympyImport
    \/ SympyIsinstance

Spec == Init /\ [][Next]_vars

(* ----------------------------- properties ------------------------------ *)
Done(f) == pc = "done" /\ fn = f

(* re matches the whole of s *)
FullMatch(re, s) == (Len(s) + 1) \in Ends(re, 1, s, {1})

EndsWithEol(re) == Len(re) > 0 /\ re[Len(re)].k = "eol"
HasEol(re) == \E i \in 1..Len(re) : re[i].k = "eol"
Prefix(s, n) == SubSeq(s, 1, n)
EndsWithNewline(s) == Len(s) > 0 /\ s[Len(s)] = "\n"

C2_StringIsCompared ==
    (Done("is_type") /\ pat.isStr) =>
        LET m == FormatS(obj.module)
            n == obj.name
        IN  ret = Bool(/\ Len(pat.s) = Len(m) + 1 + Len(n)
                       /\ \A i \in 1..Len(pat.s) :
                             pat.s[i] = IF i <= Len(m) THEN m[i]
                                        ELSE IF i = Len(m) + 1 THEN "."
                                        ELSE n[i - Len(m) - 1])

(* the pattern differs from the name only where the pattern has a "." *)
C2_Witness ==
    /\ Done("is_type")
    /\ pat.isStr
    /\ ret = "False"
    /\ Len(pat.s) = Len(actual_fqn(obj))
    /\ \A i \in 1..Len(pat.s) : pat.s[i] # "." => pat.s[i] = actual_fqn(obj)[i]

(* C3: in a call of is_sympy_expession on an object whose name does not    *)
(* start with "sympy" the import is never attempted and the result is      *)
(* False; the import is attempted only after the prefilter has matched.    *)
C3_ImportOnlyAfterPrefilter ==
    fn = "is_sympy_expession" =>
        /\ imported => prefilter = "True"
        /\ pc \in {"import", "isinstance"} => prefilter = "True"
        /\ ~startswith(actual_fqn(obj), <<"s","y","m","p","y">>) =>
              /\ ~imported
              /\ pc = "done" => ret = "False"

C3_Witness ==
    /\ Done("is_sympy_expession")
    /\ ~startswith(actual_fqn(obj), <<"s","y","m","p","y">>)
    /\ prefilter = "False"
    /\ ret = "False"

(* C4: the value a predicate returns is the boolean True or the boolean    *)
(* False.                                                                  *)
C4_ReturnsBoolean ==
    (pc = "done" /\ ret # "Raise") => ret \in {"True", "False"}

(* C5: when the import of sympy fails, or the instance check raises, the   *)
(* call of is_sympy_expession does not raise and returns False.            *)
C5_FailureGivesFalse ==
    (Done("is_sympy_expession") /\ exc # "none") => ret = "False"

C5_Witness ==
    /\ Done("is_sympy_expession")
    /\ prefilter = "True"
    /\ exc = "isinstance"
    /\ ret = "False"

(* C6: no predicate other than is_type raises, whatever the object.        *)
C6_NeverRaises ==
    (pc = "done" /\ fn # "is_type") => ret # "Raise"

PlotlyType(o) == o.module.isStr /\ startswith(o.module.s, <<"p","l","o","t","l","y",".","g","r","a","p","h","_","o","b","j","s">>)

AllPlotly(o) ==
    /\ o.cls = "list"
    /\ Len(o.items) > 0
    /\ \A i \in 1..Len(o.items) : PlotlyType(o.items[i].v)

(* C7: for a dict, is_plotly_chart returns True if and only if the dict is *)
(* not empty, all its keys are among config, data, frames, layout, and a   *)
(* value is a plotly object or a non-empty list of plotly objects.         *)
C7_PlotlyDict ==
    (Done("is_plotly_chart") /\ obj.cls = "dict") =>
        (ret = "True" <=>
            /\ Len(obj.items) > 0
            /\ \A i \in 1..Len(obj.items) :
                  obj.items[i].k \in {"config", "data", "frames", "layout"}
            /\ \E i \in 1..Len(obj.items) :
                  PlotlyType(obj.items[i].v) \/ AllPlotly(obj.items[i].v))

(* C8: for a list, is_plotly_chart returns True if and only if the list is *)
(* not empty and every element is a plotly object; it returns False for    *)
(* the empty list and for a list with an element that is not a plotly      *)
(* object.                                                                 *)
C8_PlotlyList ==
    (Done("is_plotly_chart") /\ obj.cls = "list") =>
        /\ ret = "True" <=> AllPlotly(obj)
        /\ ~AllPlotly(obj) => ret = "False"

(* C9: is_namedtuple returns True if and only if the type has tuple as its *)
(* only base, its _fields is a tuple, and every element of _fields is a    *)
(* str; it returns False for a plain tuple, a list and a dict.             *)
C9_Namedtuple ==
    Done("is_namedtuple") =>
        /\ ret = "True" <=>
              /\ obj.bases = <<"tuple">>
              /\ obj.fields.k = "tuple"
              /\ {obj.fields.names[i] : i \in 1..Len(obj.fields.names)} \subseteq {"str"}
        /\ obj.cls \in {"tuple", "list", "dict"} => ret = "False"

C9_Witness ==
    /\ Done("is_namedtuple")
    /\ obj.fields.names = <<"str", "str">>
    /\ ret = "True"

KerasNames ==
    {FormatS(StrVal(m)) \o <<".">> \o c :
        m \in {<<"k","e","r","a","s",".","e","n","g","i","n","e">>, <<"t","e","n","s","o","r","f","l","o","w",".","p","y","t","h","o","n",".","k","e","r","a","s",".","e","n","g","i","n","e">>},
        c \in {<<"s","e","q","u","e","n","t","i","a","l",".","S","e","q","u","e","n","t","i","a","l">>, <<"t","r","a","i","n","i","n","g",".","M","o","d","e","l">>}}

(* C10: is_keras_model returns True if and only if the fully-qualified     *)
(* name is one of the four names; an instance of a subclass of one of the  *)
(* four, with another name, gives False.                                   *)
C10_KerasExactName ==
    Done("is_keras_model") =>
        /\ ret = "True" <=> actual_fqn(obj) \in KerasNames
        /\ (obj.mro \cap KerasNames # {} /\ actual_fqn(obj) \notin KerasNames)
              => ret = "False"

C10_Witness ==
    /\ Done("is_keras_model")
    /\ obj.mro \cap KerasNames # {}
    /\ actual_fqn(obj) \notin KerasNames
    /\ ret = "False"
====
